---------------------------- MODULE Spec2Model ----------------------------
(***************************************************************************)
(* Blog analytics: the dynamic filter engine (blog_analytics/filters.py),  *)
(* the growth and label helpers (blog_analytics/utils.py) and the three    *)
(* analytics endpoints (blog_analytics/views.py) over the BlogView         *)
(* dataset (blog_analytics/models.py).                                     *)
(*                                                                         *)
(* A request is one step: an endpoint or an entry point of the filter      *)
(* engine is called with inputs drawn from bounded sets and runs to its    *)
(* response; Return takes the response away again.  The stored rows are    *)
(* chosen at the start and never change: no code modelled here writes the  *)
(* tables.                                                                 *)
(***************************************************************************)
EXTENDS Integers, Sequences, FiniteSets, TLC

VARIABLES
    db,     \* the ids of the BlogView rows stored
    op,     \* the entry point of the request in hand, "idle" when none
    arg,    \* its inputs
    ret     \* its outcome

vars == <<db, op, arg, ret>>

(***************************************************************************)
(* Bounds of the model.                                                    *)
(***************************************************************************)
\* BlogView rows 1..MaxViews exist; the stored rows are any subset of them.
MaxViews == 3
\* calculate_growth_percentage is called with counts 0..MaxCount.
MaxCount == 16
\* The rankings are of up to MaxGroups + 2 groups, of 1..MaxGroups views each
\* from the third on.
MaxGroups == 11

(***************************************************************************)
(* Small helpers over sequences and sets.                                  *)
(***************************************************************************)
Range(s) == {s[i] : i \in 1..Len(s)}

RECURSIVE SetToSeq(_)
\* The integers of a finite set in ascending order.
SetToSeq(S) ==
    IF S = {} THEN <<>>
    ELSE LET m == CHOOSE x \in S : \A y \in S : x <= y
         IN <<m>> \o SetToSeq(S \ {m})

RECURSIVE SumSeq(_)
SumSeq(s) == IF s = <<>> THEN 0 ELSE Head(s) + SumSeq(Tail(s))

(***************************************************************************)
(* JSON values, as json.loads returns them.  A string is its sequence of   *)
(* characters; an object is the sequence of its (key, value) pairs in      *)
(* insertion order, its keys distinct.  A key is kept split at the "__"    *)
(* separator of a field lookup: "country__code__in" is                     *)
(* <<"country", "code", "in">>, "and" is <<"and">>.                        *)
(***************************************************************************)
JNull == [t |-> "null"]
JBool(b) == [t |-> "bool", b |-> b]
JNum(n) == [t |-> "num", n |-> n]
JStr(s) == [t |-> "str", s |-> s]
JList(xs) == [t |-> "list", xs |-> xs]
JObj(kv) == [t |-> "obj", kv |-> kv]

\* Python's truth value of a JSON value: None, False, 0, "", [] and {} are falsy.
Truthy(v) ==
    CASE v.t = "null" -> FALSE
      [] v.t = "bool" -> v.b
      [] v.t = "num" -> v.n # 0
      [] v.t = "str" -> v.s # <<>>
      [] v.t = "list" -> v.xs # <<>>
      [] v.t = "obj" -> v.kv # <<>>

\* isinstance(v, dict) and isinstance(v, list)
IsDict(v) == v.t = "obj"
IsList(v) == v.t = "list"

\* node.keys(), and node[key] for a key of the node
Keys(node) == [i \in 1..Len(node.kv) |-> node.kv[i][1]]
Get(node, key) ==
    LET i == CHOOSE j \in 1..Len(node.kv) : node.kv[j][1] = key
    IN node.kv[i][2]

(***************************************************************************)
(* Characters: str.lower() on the letters the model uses.                  *)
(***************************************************************************)
LowerChar(c) ==
    CASE c = "U" -> "u"
      [] c = "S" -> "s"
      [] c = "K" -> "k"
      [] OTHER -> c
Lower(s) == [i \in 1..Len(s) |-> LowerChar(s[i])]

\* sub occurs in s as a contiguous run
IsSubstring(sub, s) ==
    \E i \in 0..(Len(s) - Len(sub)) :
        \A j \in 1..Len(sub) : s[i + j] = sub[j]

IsPrefix(pre, s) ==
    /\ Len(pre) <= Len(s)
    /\ \A j \in 1..Len(pre) : s[j] = pre[j]

RECURSIVE SeqLess(_, _)
\* Lexicographic order of two strings by character; the model's strings
\* that are compared by order are single-cased, where it is the code-point order.
CharRank(c) ==
    CASE c = "K" -> 1
      [] c = "S" -> 2
      [] c = "U" -> 3
      [] c = "k" -> 4
      [] c = "s" -> 5
      [] c = "u" -> 6
      [] OTHER -> 7
SeqLess(a, b) ==
    IF b = <<>> THEN FALSE
    ELSE IF a = <<>> THEN TRUE
    ELSE IF Head(a) # Head(b) THEN CharRank(Head(a)) < CharRank(Head(b))
    ELSE SeqLess(Tail(a), Tail(b))

(***************************************************************************)
(* Decimal digits: str(n) and int(s).                                      *)
(***************************************************************************)
Digit(d) ==
    CASE d = 0 -> "0" [] d = 1 -> "1" [] d = 2 -> "2" [] d = 3 -> "3"
      [] d = 4 -> "4" [] d = 5 -> "5" [] d = 6 -> "6" [] d = 7 -> "7"
      [] d = 8 -> "8" [] d = 9 -> "9"

RECURSIVE ToStr(_)
\* str(n) of an integer
ToStr(n) ==
    IF n < 0 THEN <<"-">> \o ToStr(0 - n)
    ELSE IF n < 10 THEN <<Digit(n)>>
    ELSE ToStr(n \div 10) \o <<Digit(n % 10)>>

IsDigit(c) == \E d \in 0..9 : Digit(d) = c
DigitValue(c) == CHOOSE d \in 0..9 : Digit(d) = c

RECURSIVE DigitsValue(_)
DigitsValue(s) ==
    IF s = <<>> THEN 0
    ELSE 10 * DigitsValue(SubSeq(s, 1, Len(s) - 1)) + DigitValue(s[Len(s)])

\* int(s) succeeds on an optional minus sign and digits
IsIntString(s) ==
    LET d == IF s # <<>> /\ Head(s) = "-" THEN Tail(s) ELSE s
    IN d # <<>> /\ \A i \in 1..Len(d) : IsDigit(d[i])
IntOfString(s) ==
    IF Head(s) = "-" THEN 0 - DigitsValue(Tail(s)) ELSE DigitsValue(s)

(***************************************************************************)
(* The tables (blog_analytics/models.py).  An id of 0 is NULL.  A time is  *)
(* a day number; Now is the day of the request.                            *)
(***************************************************************************)
NULL == 0
Now == 400

CountryIds == {1, 2}
UserIds == {1, 2}
BlogIds == 1..MaxViews
ViewIds == 1..MaxViews

\* Countries and users from 3 on are told apart by their names.
Country(c) ==
    CASE c = 1 -> [id |-> 1, name |-> <<"U", "s", "a">>, code |-> <<"U", "S">>]
      [] c = 2 -> [id |-> 2, name |-> <<"U", "k">>, code |-> <<"U", "K">>]
      [] OTHER -> [id |-> c, name |-> <<"c">> \o ToStr(c), code |-> <<"0">> \o ToStr(c)]

\* User 2 has no country, nor have the users from 3 on.
User(u) ==
    CASE u = 1 -> [id |-> 1, username |-> <<"s", "u">>, country |-> 1]
      [] u = 2 -> [id |-> 2, username |-> <<"k", "u">>, country |-> NULL]
      [] OTHER -> [id |-> u, username |-> <<"u">> \o ToStr(u), country |-> NULL]

\* Blogs 1 and 2 have the same title and the same author; the blogs from 3 on
\* are told apart by their titles.
Blog(b) ==
    CASE b = 1 -> [id |-> 1, title |-> <<"k">>, author |-> 1, country |-> 1,
                   created_at |-> 90]
      [] b = 2 -> [id |-> 2, title |-> <<"k">>, author |-> 1, country |-> 1,
                   created_at |-> 370]
      [] OTHER -> [id |-> b, title |-> <<"s">> \o ToStr(b), author |-> 2,
                   country |-> NULL, created_at |-> 395]

\* The views from 5 on: the first is of blog 3, the next two of blog 4, the
\* next three of blog 5 and so on; GroupOf(j) is the group of the j-th.
GroupOf(j) == CHOOSE k \in 1..j : (k - 1) * k < 2 * j /\ 2 * j <= k * (k + 1)

\* View 2 is anonymous, view 3 has no country; views 1, 2 and 4 are of blog 1;
\* a view from 5 on is of the blog of its group, by the user and from the
\* country of the same id, within the last 40 days.
BlogView(i) ==
    CASE i = 1 -> [id |-> 1, blog |-> 1, viewer |-> 1, country |-> 1,
                   viewed_at |-> 399]
      [] i = 2 -> [id |-> 2, blog |-> 1, viewer |-> NULL, country |-> 2,
                   viewed_at |-> 380]
      [] i = 3 -> [id |-> 3, blog |-> 2, viewer |-> 2, country |-> NULL,
                   viewed_at |-> 396]
      [] i = 4 -> [id |-> 4, blog |-> 1, viewer |-> 2, country |-> 1,
                   viewed_at |-> 100]
      [] OTHER -> [id |-> i, blog |-> GroupOf(i - 4) + 2,
                   viewer |-> GroupOf(i - 4) + 2, country |-> GroupOf(i - 4) + 2,
                   viewed_at |-> Now - (i % 40)]

\* An object is a row of a table, or the NULL of that table.
Obj(m, id) == [m |-> m, id |-> id]

Row(o) ==
    CASE o.m = "BlogView" -> BlogView(o.id)
      [] o.m = "Blog" -> Blog(o.id)
      [] o.m = "User" -> User(o.id)
      [] o.m = "Country" -> Country(o.id)

\* The rows of a table; of BlogView, the rows stored.
Stored(m, rows) ==
    CASE m = "BlogView" -> rows
      [] m = "Blog" -> BlogIds
      [] m = "User" -> UserIds
      [] m = "Country" -> CountryIds

(***************************************************************************)
(* The schema: what a name means on a model.  "fk" is a ForeignKey to      *)
(* `to`; "rev" is the reverse side of a ForeignKey of `to` named `by`      *)
(* (its related_name), a one-to-many relation; "int", "str" and "date" are *)
(* columns; "none" is no field of the model.                               *)
(***************************************************************************)
NoField == [kind |-> "none", to |-> "", by |-> ""]
Column(kind) == [kind |-> kind, to |-> "", by |-> ""]
ForeignKey(to) == [kind |-> "fk", to |-> to, by |-> ""]
Reverse(to, by) == [kind |-> "rev", to |-> to, by |-> by]

Field(m, name) ==
    CASE m = "BlogView" ->
           (CASE name = "id" -> Column("int")
              [] name = "blog" -> ForeignKey("Blog")
              [] name = "viewer" -> ForeignKey("User")
              [] name = "country" -> ForeignKey("Country")
              [] name = "viewed_at" -> Column("date")
              [] OTHER -> NoField)
      [] m = "Blog" ->
           (CASE name = "id" -> Column("int")
              [] name = "title" -> Column("str")
              [] name = "author" -> ForeignKey("User")
              [] name = "country" -> ForeignKey("Country")
              [] name = "created_at" -> Column("date")
              [] name = "views" -> Reverse("BlogView", "blog")
              [] OTHER -> NoField)
      [] m = "User" ->
           (CASE name = "id" -> Column("int")
              [] name = "username" -> Column("str")
              [] name = "country" -> ForeignKey("Country")
              [] name = "blogs" -> Reverse("Blog", "author")
              [] name = "viewed_blogs" -> Reverse("BlogView", "viewer")
              [] OTHER -> NoField)
      [] m = "Country" ->
           (CASE name = "id" -> Column("int")
              [] name = "name" -> Column("str")
              [] name = "code" -> Column("str")
              [] name = "users" -> Reverse("User", "country")
              [] name = "blogs" -> Reverse("Blog", "country")
              [] name = "blog_views" -> Reverse("BlogView", "country")
              [] OTHER -> NoField)

IsRelation(f) == f.kind \in {"fk", "rev"}

(***************************************************************************)
(* Outcomes.  A call returns a value or raises: Raise(exc, msg) is the     *)
(* exception of class exc whose str() is msg.  A message is kept as its    *)
(* format and the values formatted into it.                                *)
(***************************************************************************)
Raise(exc, msg) == [ok |-> FALSE, exc |-> exc, msg |-> msg]
Ok(v) == [ok |-> TRUE, v |-> v]

\* type(node), for the message of a node that is no dict
PyType(v) ==
    CASE v.t = "null" -> "NoneType"
      [] v.t = "bool" -> "bool"
      [] v.t = "num" -> "int"
      [] v.t = "str" -> "str"
      [] v.t = "list" -> "list"
      [] v.t = "obj" -> "dict"

MsgNotDict(node) == [m |-> "Filter node must be a dictionary, got", type |-> PyType(node)]
MsgNoOperation(node) == [m |-> "No valid operation found in node:", node |-> node]
MsgMultiple(operations) ==
    [m |-> "Multiple operations in single node:", operations |-> operations]
MsgUnsupported(operation) == [m |-> "Unsupported operation:", operation |-> operation]
MsgAndList == [m |-> "AND operation requires a list of conditions"]
MsgOrList == [m |-> "OR operation requires a list of conditions"]
MsgNotDictCondition == [m |-> "NOT operation requires a dictionary condition"]
MsgEqDict == [m |-> "EQ operation requires a dictionary of field-value pairs"]
\* f"Invalid filter: {str(e)}"
MsgInvalidFilter(cause) == [m |-> "Invalid filter:", cause |-> cause]

(***************************************************************************)
(* django.db.models.Q: a tree of a connector, a negation flag and          *)
(* children, each a (key, value) condition or a Q.  Q() has no children    *)
(* and is falsy.                                                           *)
(***************************************************************************)
Cond(key, val) == [k |-> "cond", key |-> key, val |-> val]
QNode(conn, neg, ch) == [k |-> "q", conn |-> conn, neg |-> neg, ch |-> ch]
QEmpty == QNode("AND", FALSE, <<>>)
\* Q(**{field: value})
QOf(key, val) == QNode("AND", FALSE, <<Cond(key, val)>>)

\* tree.Node.add(data, conn_type), on a node that is a Q
QAdd(self, data, conn) ==
    IF self.conn # conn
    THEN QNode(conn, self.neg, <<self, data>>)
    ELSE IF data.k = "q" /\ ~data.neg /\ (data.conn = conn \/ Len(data.ch) = 1)
         THEN QNode(self.conn, self.neg, self.ch \o data.ch)
         ELSE QNode(self.conn, self.neg, Append(self.ch, data))

\* Q._combine(other, conn): the operators & and |.  An empty side is dropped.
QCombine(self, other, conn) ==
    IF self.ch = <<>> THEN other
    ELSE IF other.ch = <<>> THEN self
    ELSE QAdd(QAdd(QNode(conn, FALSE, <<>>), self, conn), other, conn)

\* Q.__invert__: the operator ~, a copy with the flag flipped
QInvert(self) == QNode(self.conn, ~self.neg, self.ch)

(***************************************************************************)
(* DynamicFilter: the recursive-descent parser of a filter dictionary.     *)
(***************************************************************************)
SUPPORTED_OPERATIONS == <<<<"and">>, <<"or">>, <<"not">>, <<"eq">>>>

IsSupported(key) == key \in Range(SUPPORTED_OPERATIONS)

RECURSIVE _parse_node(_)
RECURSIVE ParseEach(_, _, _, _)

\* The loops of _parse_and and _parse_or: q &= (or |=) the parse of each
\* condition from the i-th on; the first condition that raises ends it.
ParseEach(conditions, i, q, conn) ==
    IF i > Len(conditions) THEN Ok(q)
    ELSE LET r == _parse_node(conditions[i])
         IN IF ~r.ok THEN r
            ELSE ParseEach(conditions, i + 1, QCombine(q, r.v, conn), conn)

_parse_and(conditions) ==
    IF ~IsList(conditions) THEN Raise("ValueError", MsgAndList)
    ELSE IF conditions.xs = <<>> THEN Ok(QEmpty)
    ELSE ParseEach(conditions.xs, 1, QEmpty, "AND")

\* _parse_or with the empty disjunction matching no row: Q(pk__in=[]).
_parse_or_none(conditions) ==
    IF ~IsList(conditions) THEN Raise("ValueError", MsgOrList)
    ELSE IF conditions.xs = <<>> THEN Ok(QOf(<<"id", "in">>, JList(<<>>)))
    ELSE ParseEach(conditions.xs, 1, QEmpty, "OR")

_parse_or(conditions) ==
    IF ~IsList(conditions) THEN Raise("ValueError", MsgOrList)
    ELSE IF conditions.xs = <<>> THEN Ok(QEmpty)
    ELSE ParseEach(conditions.xs, 1, QEmpty, "OR")

_parse_not(condition) ==
    IF ~IsDict(condition) THEN Raise("ValueError", MsgNotDictCondition)
    ELSE LET r == _parse_node(condition)
         IN IF ~r.ok THEN r ELSE Ok(QInvert(r.v))

RECURSIVE EqEach(_, _, _)
\* The loop of _parse_eq: q &= Q(**{field: value}) for each pair.
EqEach(kv, i, q) ==
    IF i > Len(kv) THEN q
    ELSE EqEach(kv, i + 1, QCombine(q, QOf(kv[i][1], kv[i][2]), "AND"))

\* _parse_eq with "q & Q(...)" for "q &= Q(...)": the conditions are dropped.
_parse_eq_dropped(fields) ==
    IF ~IsDict(fields) THEN Raise("ValueError", MsgEqDict)
    ELSE Ok(QEmpty)

_parse_eq(fields) ==
    IF ~IsDict(fields) THEN Raise("ValueError", MsgEqDict)
    ELSE Ok(EqEach(fields.kv, 1, QEmpty))

\* _parse_node without the check for several operations: the first is taken.
_parse_node_first(node) ==
    IF ~IsDict(node) THEN Raise("ValueError", MsgNotDict(node))
    ELSE LET operations == SelectSeq(Keys(node), IsSupported)
         IN IF operations = <<>>
            THEN Raise("ValueError", MsgNoOperation(node))
            ELSE LET operation == operations[1]
                     value == Get(node, operation)
                 IN CASE operation = <<"and">> -> _parse_and(value)
                      [] operation = <<"or">> -> _parse_or(value)
                      [] operation = <<"not">> -> _parse_not(value)
                      [] operation = <<"eq">> -> _parse_eq(value)
                      [] OTHER -> Raise("ValueError", MsgUnsupported(operation))

_parse_node(node) ==
    IF ~IsDict(node) THEN Raise("ValueError", MsgNotDict(node))
    ELSE LET operations == SelectSeq(Keys(node), IsSupported)
         IN IF operations = <<>>
            THEN Raise("ValueError", MsgNoOperation(node))
            ELSE IF Len(operations) > 1
            THEN Raise("ValueError", MsgMultiple(operations))
            ELSE LET operation == operations[1]
                     value == Get(node, operation)
                 IN CASE operation = <<"and">> -> _parse_and(value)
                      [] operation = <<"or">> -> _parse_or(value)
                      [] operation = <<"not">> -> _parse_not(value)
                      [] operation = <<"eq">> -> _parse_eq(value)
                      [] OTHER -> Raise("ValueError", MsgUnsupported(operation))

\* DynamicFilter(filter_dict).parse(): a falsy filter_dict is the empty Q.
parse(filter_dict) ==
    IF ~Truthy(filter_dict) THEN Ok(QEmpty)
    ELSE _parse_node(filter_dict)

(***************************************************************************)
(* The dataset's query capability: QuerySet.filter(q) of Django's ORM on   *)
(* the BlogView table.  A key names relations to follow, then a column,    *)
(* then at most one lookup; the lookups known here are the ones below      *)
(* (Django has more, and transforms such as __year, which no key of the    *)
(* model uses).                                                            *)
(***************************************************************************)
Lookups ==
    {"exact", "iexact", "contains", "icontains", "startswith", "in",
     "gt", "gte", "lt", "lte", "isnull"}
RelatedLookups == {"exact", "in", "gt", "gte", "lt", "lte", "isnull"}

MsgCannotResolve(name) == [m |-> "Cannot resolve keyword into field", name |-> name]
MsgUnsupportedLookup(names) == [m |-> "Unsupported lookup", names |-> names]
MsgNoneValue == [m |-> "Cannot use None as a query value"]
MsgIsNullValue == [m |-> "The QuerySet value for an isnull lookup must be True or False."]
MsgExpectedNumber(val) == [m |-> "Field expected a number but got", val |-> val]
MsgNotIterable(val) == [m |-> "object is not iterable", type |-> PyType(val)]
MsgInvalidDate(val) == [m |-> "value has an invalid format", val |-> val]

\* What a key resolves to: the relations followed, the position among them
\* of the last one-to-many relation (0: none), the column compared, its
\* kind, and the lookup.
Resolved(rels, many, col, kind, lookup) ==
    [rels |-> rels, many |-> many, col |-> col, kind |-> kind, lookup |-> lookup]

RECURSIVE Walk(_, _, _, _)
\* Query.solve_lookup_type and build_lookup: names are fields for as long as
\* they resolve, the rest is the lookup.
Walk(m, segs, rels, many) ==
    IF segs = <<>> THEN Ok(Resolved(rels, many, "id", "int", "exact"))
    ELSE LET f == Field(m, Head(segs))
         IN IF IsRelation(f)
            THEN Walk(f.to, Tail(segs), Append(rels, Head(segs)),
                      IF f.kind = "rev" THEN Len(rels) + 1 ELSE many)
            ELSE IF f.kind = "none"
            THEN IF rels = <<>>
                 THEN Raise("FieldError", MsgCannotResolve(Head(segs)))
                 ELSE IF Len(segs) = 1 /\ segs[1] \in RelatedLookups
                 THEN Ok(Resolved(rels, many, "id", "int", segs[1]))
                 ELSE Raise("FieldError", MsgUnsupportedLookup(segs))
            ELSE IF Len(segs) = 1
            THEN Ok(Resolved(rels, many, segs[1], f.kind, "exact"))
            ELSE IF Len(segs) = 2 /\ segs[2] \in Lookups
            THEN Ok(Resolved(rels, many, segs[1], f.kind, segs[2]))
            ELSE Raise("FieldError", MsgUnsupportedLookup(Tail(segs)))

Resolve(key) == Walk("BlogView", key, <<>>, 0)

\* The elements of the value of an `in` lookup: iter(val)
Elements(val) ==
    CASE val.t = "list" -> val.xs
      [] val.t = "str" -> [i \in 1..Len(val.s) |-> JStr(<<val.s[i]>>)]
      [] val.t = "obj" -> [i \in 1..Len(val.kv) |-> JStr(val.kv[i][1])]
      [] OTHER -> <<>>
IsIterable(val) == val.t \in {"list", "str", "obj"}

\* get_prep_value of one value for a column of the kind: "ok", or what it raises
PrepOne(kind, lookup, val) ==
    IF val.t = "null" THEN Raise("ValueError", MsgNoneValue)
    ELSE IF kind = "date"
    THEN IF val.t = "str"
         THEN Raise("ValidationError", MsgInvalidDate(val))
         ELSE Raise("TypeError", MsgInvalidDate(val))
    ELSE IF kind = "int" /\ lookup \in RelatedLookups
    THEN CASE val.t \in {"num", "bool"} -> Ok("ok")
           [] val.t = "str" ->
                IF IsIntString(val.s) THEN Ok("ok")
                ELSE Raise("ValueError", MsgExpectedNumber(val))
           [] OTHER -> Raise("TypeError", MsgExpectedNumber(val))
    ELSE Ok("ok")

RECURSIVE PrepEach(_, _, _, _)
\* The elements of an `in` value are prepared in order; None is let through.
PrepEach(kind, lookup, xs, i) ==
    IF i > Len(xs) THEN Ok("ok")
    ELSE IF xs[i].t = "null" THEN PrepEach(kind, lookup, xs, i + 1)
    ELSE LET r == PrepOne(kind, lookup, xs[i])
         IN IF ~r.ok THEN r ELSE PrepEach(kind, lookup, xs, i + 1)

\* Query.build_filter of one condition: "ok", or what it raises
CheckCond(c) ==
    LET r == Resolve(c.key)
    IN IF ~r.ok THEN r
       ELSE IF r.v.lookup = "isnull"
       THEN IF c.val.t = "bool" THEN Ok("ok")
            ELSE Raise("ValueError", MsgIsNullValue)
       ELSE IF c.val.t = "null" /\ r.v.lookup \in {"exact", "iexact"}
       THEN Ok("ok")
       ELSE IF r.v.lookup = "in"
       THEN IF ~IsIterable(c.val) THEN Raise("TypeError", MsgNotIterable(c.val))
            ELSE PrepEach(r.v.kind, "in", Elements(c.val), 1)
       ELSE PrepOne(r.v.kind, r.v.lookup, c.val)

RECURSIVE CheckQ(_)
RECURSIVE CheckEach(_, _)
\* Query._add_q: the children are built in order; the first that raises ends it.
CheckEach(ch, i) ==
    IF i > Len(ch) THEN Ok("ok")
    ELSE LET r == CheckQ(ch[i])
         IN IF ~r.ok THEN r ELSE CheckEach(ch, i + 1)
CheckQ(q) == IF q.k = "cond" THEN CheckCond(q) ELSE CheckEach(q.ch, 1)

(***************************************************************************)
(* Rows reached and conditions matched.                                    *)
(***************************************************************************)
\* The objects one relation leads to from object o, one per joined row; the
\* NULL object when there is none (a LEFT OUTER JOIN).
Step(stored, o, name) ==
    LET f == Field(o.m, name)
    IN IF o.id = NULL THEN <<Obj(f.to, NULL)>>
       ELSE IF f.kind = "fk" THEN <<Obj(f.to, Row(o)[name])>>
       ELSE LET ids == {i \in Stored(f.to, stored) : Row(Obj(f.to, i))[f.by] = o.id}
            IN IF ids = {} THEN <<Obj(f.to, NULL)>>
               ELSE [i \in 1..Cardinality(ids) |-> Obj(f.to, SetToSeq(ids)[i])]

RECURSIVE StepAll(_, _, _)
StepAll(stored, objs, name) ==
    IF objs = <<>> THEN <<>>
    ELSE Step(stored, Head(objs), name) \o StepAll(stored, Tail(objs), name)

RECURSIVE Reach(_, _, _)
\* The objects the relations rels lead to from the objects objs.
Reach(stored, objs, rels) ==
    IF rels = <<>> THEN objs
    ELSE Reach(stored, StepAll(stored, objs, Head(rels)), Tail(rels))

\* int(value) and str(value) of a query value
IntOf(val) ==
    CASE val.t = "num" -> val.n
      [] val.t = "bool" -> IF val.b THEN 1 ELSE 0
      [] val.t = "str" -> IntOfString(val.s)
\* str() of a list or dict is bracketed; no stored string holds a bracket
StrOf(val) ==
    CASE val.t = "str" -> val.s
      [] val.t = "num" -> ToStr(val.n)
      [] val.t = "bool" -> IF val.b THEN <<"T", "r", "u", "e">>
                           ELSE <<"F", "a", "l", "s", "e">>
      [] val.t = "list" -> <<"[", "]">>
      [] OTHER -> <<"{", "}">>

\* Whether the column r.col of object o satisfies lookup r.lookup against val.
\* A missing object has NULL in every column, and NULL satisfies only
\* isnull=True and exact None.
Match(r, val, o) ==
    LET null == o.id = NULL
        x == Row(o)[r.col]
    IN IF r.lookup = "isnull" THEN val.b <=> null
       ELSE IF val.t = "null" THEN null
       ELSE IF null \/ r.kind = "date" THEN FALSE
       ELSE IF r.kind = "int" /\ r.lookup \in RelatedLookups
       THEN CASE r.lookup = "exact" -> x = IntOf(val)
              [] r.lookup = "in" ->
                   \E e \in Range(Elements(val)) : e.t # "null" /\ x = IntOf(e)
              [] r.lookup = "gt" -> x > IntOf(val)
              [] r.lookup = "gte" -> x >= IntOf(val)
              [] r.lookup = "lt" -> x < IntOf(val)
              [] r.lookup = "lte" -> x <= IntOf(val)
       ELSE LET xs == IF r.kind = "int" THEN ToStr(x) ELSE x
                p == StrOf(val)
            IN CASE r.lookup = "exact" -> xs = p
                 [] r.lookup = "iexact" -> Lower(xs) = Lower(p)
                 [] r.lookup = "contains" -> IsSubstring(p, xs)
                 [] r.lookup = "icontains" -> IsSubstring(Lower(p), Lower(xs))
                 [] r.lookup = "startswith" -> IsPrefix(p, xs)
                 [] r.lookup = "in" ->
                      \E e \in Range(Elements(val)) : e.t # "null" /\ xs = StrOf(e)
                 [] r.lookup = "gt" -> SeqLess(p, xs)
                 [] r.lookup = "gte" -> ~SeqLess(xs, p)
                 [] r.lookup = "lt" -> SeqLess(xs, p)
                 [] r.lookup = "lte" -> ~SeqLess(p, xs)

\* A Q that adds nothing to the WHERE clause: no condition below it.
RECURSIVE Vacuous(_)
Vacuous(q) == q.k = "q" /\ \A i \in 1..Len(q.ch) : Vacuous(q.ch[i])

\* The join a condition over a one-to-many relation uses: the relations up
\* to the last one-to-many one.  Conditions of one filter() call that follow
\* the same relations share the join.
JoinKey(r) == SubSeq(r.rels, 1, r.many)

RECURSIVE JoinKeys(_, _)
\* The joins of the conditions outside every negation.
JoinKeys(q, negated) ==
    IF q.k = "cond"
    THEN LET r == Resolve(q.key).v
         IN IF r.many > 0 /\ ~negated THEN {JoinKey(r)} ELSE {}
    ELSE UNION {JoinKeys(q.ch[i], negated \/ q.neg) : i \in 1..Len(q.ch)}

RECURSIVE EvalQ(_, _, _, _, _)
\* The WHERE clause of q on one joined row: view row v with, for each join,
\* the joined object joins[key].  Under a negation a condition over a
\* one-to-many relation is a subquery (Query.split_exclude): some related
\* object satisfies it.  A vacuous child is left out of the clause.
EvalQ(stored, v, q, negated, joins) ==
    IF q.k = "cond"
    THEN LET r == Resolve(q.key).v
             here == <<Obj("BlogView", v)>>
         IN IF r.many = 0
            THEN Match(r, q.val, Reach(stored, here, r.rels)[1])
            ELSE IF negated
            THEN \E o \in Range(Reach(stored, here, r.rels)) : Match(r, q.val, o)
            ELSE Match(r, q.val,
                       Reach(stored, <<joins[JoinKey(r)]>>,
                             SubSeq(r.rels, r.many + 1, Len(r.rels)))[1])
    ELSE LET kids == SelectSeq(q.ch, LAMBDA c : ~Vacuous(c))
             each == [i \in 1..Len(kids) |->
                        EvalQ(stored, v, kids[i], negated \/ q.neg, joins)]
             all == IF q.conn = "AND"
                    THEN \A i \in 1..Len(kids) : each[i]
                    ELSE \E i \in 1..Len(kids) : each[i]
         IN IF q.neg THEN ~all ELSE all

\* The joined rows of view row v: one choice of joined object per join.
JoinRows(stored, v, keys) ==
    LET objs(key) == Reach(stored, <<Obj("BlogView", v)>>, key)
        all == UNION {Range(objs(key)) : key \in keys}
    IN {j \in [keys -> all] : \A key \in keys : j[key] \in Range(objs(key))}

\* A queryset is the number of times it yields each stored row.
AllRows(stored) == [i \in stored |-> 1]
RowsOf(qs) == {i \in DOMAIN qs : qs[i] > 0}

\* queryset.filter(q): raises what building the query raises; else every row
\* of the queryset once per joined row that satisfies the WHERE clause.  A
\* vacuous q adds no clause and no join.
Filter(stored, qs, q) ==
    LET c == CheckQ(q)
    IN IF ~c.ok THEN c
       ELSE IF Vacuous(q) THEN Ok(qs)
       ELSE LET keys == JoinKeys(q, FALSE)
            IN Ok([i \in DOMAIN qs |->
                     qs[i] * Cardinality({j \in JoinRows(stored, i, keys) :
                                             EvalQ(stored, i, q, FALSE, j)})])

(***************************************************************************)
(* The entry points of the filter engine.                                  *)
(***************************************************************************)
\* apply_filters with "except ValueError" for "except Exception": what is no
\* ValueError leaves it as it was raised.
apply_filters_narrow(stored, queryset, filter_dict) ==
    IF ~Truthy(filter_dict) THEN Ok(queryset)
    ELSE LET parsed == parse(filter_dict)
         IN IF ~parsed.ok
            THEN Raise("ValueError", MsgInvalidFilter(parsed.msg))
            ELSE LET filtered == Filter(stored, queryset, parsed.v)
                 IN IF ~filtered.ok /\ filtered.exc = "ValueError"
                    THEN Raise("ValueError", MsgInvalidFilter(filtered.msg))
                    ELSE filtered

\* apply_filters(queryset, filter_dict): a falsy filter_dict returns the
\* queryset; any exception of parsing or filtering is raised again as
\* ValueError("Invalid filter: ...").
apply_filters(stored, queryset, filter_dict) ==
    IF ~Truthy(filter_dict) THEN Ok(queryset)
    ELSE LET parsed == parse(filter_dict)
         IN IF ~parsed.ok
            THEN Raise("ValueError", MsgInvalidFilter(parsed.msg))
            ELSE LET filtered == Filter(stored, queryset, parsed.v)
                 IN IF ~filtered.ok
                    THEN Raise("ValueError", MsgInvalidFilter(filtered.msg))
                    ELSE filtered

\* validate_filters(filter_dict): (is_valid, error_message); "" is the empty
\* message.
NoMessage == [m |-> ""]
\* validate_filters returning f"Invalid filter: {e}" for str(e)
validate_filters_wrapped(filter_dict) ==
    IF ~Truthy(filter_dict) THEN Ok(<<TRUE, NoMessage>>)
    ELSE LET parsed == parse(filter_dict)
         IN IF parsed.ok THEN Ok(<<TRUE, NoMessage>>)
            ELSE Ok(<<FALSE, MsgInvalidFilter(parsed.msg)>>)

validate_filters(filter_dict) ==
    IF ~Truthy(filter_dict) THEN Ok(<<TRUE, NoMessage>>)
    ELSE LET parsed == parse(filter_dict)
         IN IF parsed.ok THEN Ok(<<TRUE, NoMessage>>)
            ELSE Ok(<<FALSE, parsed.msg>>)

(***************************************************************************)
(* calculate_growth_percentage(current, previous) on counts.  The          *)
(* percentage is a double and f"{percentage:.1f}" rounds it to the nearest *)
(* tenth, a tie to the even tenth.  For the counts of the model the double *)
(* rounds as the exact quotient does: the quotient is a tie only when      *)
(* previous is a multiple of 16, and for previous = 16 the double is exact.*)
(***************************************************************************)
\* The tenths of |current - previous| / previous * 100, rounded half to even.
RoundedTenths(current, previous) ==
    LET n == 1000 * (IF current >= previous THEN current - previous
                     ELSE previous - current)
        q == n \div previous
        r == n % previous
    IN IF 2 * r > previous \/ (2 * r = previous /\ q % 2 = 1) THEN q + 1 ELSE q

\* f"{x:.1f}" of the magnitude whose rounded tenths are t
OneDecimal(t) == ToStr(t \div 10) \o <<".", Digit(t % 10)>>

\* calculate_growth_percentage with the percentage cut, not rounded, to a tenth.
calculate_growth_percentage_cut(current, previous) ==
    IF previous = 0
    THEN IF current = 0 THEN <<"0", ".", "0", "%">>
         ELSE <<"+", "1", "0", "0", ".", "0", "%">>
    ELSE LET n == 1000 * (IF current >= previous THEN current - previous
                          ELSE previous - current)
         IN IF current - previous >= 0
            THEN <<"+">> \o OneDecimal(n \div previous) \o <<"%">>
            ELSE <<"-">> \o OneDecimal(n \div previous) \o <<"%">>

calculate_growth_percentage(current, previous) ==
    IF previous = 0
    THEN IF current = 0 THEN <<"0", ".", "0", "%">>
         ELSE <<"+", "1", "0", "0", ".", "0", "%">>
    ELSE LET t == RoundedTenths(current, previous)
         IN IF current - previous >= 0
            THEN <<"+">> \o OneDecimal(t) \o <<"%">>
            ELSE <<"-">> \o OneDecimal(t) \o <<"%">>

(***************************************************************************)
(* The endpoints (blog_analytics/views.py).  A query parameter that is not *)
(* given is "".  The filters parameter is Absent, or Malformed (text that  *)
(* json.loads rejects), or the JSON value its text stands for.             *)
(***************************************************************************)
Absent == [t |-> "absent"]
Malformed == [t |-> "malformed"]

MsgInvalidJSON == [m |-> "Invalid JSON in filters parameter"]
MsgRange == [m |-> "range must be one of \"month\", \"week\", or \"year\"."]
MsgObjectTypeRequired == [m |-> "object_type is required"]
MsgObjectType == [m |-> "object_type must be \"country\" or \"user\""]
MsgRangeRequired == [m |-> "range parameter is required"]
MsgTopRequired == [m |-> "top parameter is required"]
MsgTop == [m |-> "top must be \"user\", \"country\", or \"blog\""]
MsgServerError(cause) == [m |-> "Server error:", cause |-> cause]

validate_range(range_type) == range_type \in {"month", "week", "year"}
validate_compare(compare_type) == compare_type \in {"month", "week", "day", "year"}
validate_object_type(object_type) == object_type \in {"country", "user"}
validate_top_type(top_type) == top_type \in {"user", "country", "blog"}

\* get_date_range(range_type), for a valid range_type: (start_date, now)
get_date_range(range_type) ==
    CASE range_type = "month" -> <<Now - 30, Now>>
      [] range_type = "week" -> <<Now - 7, Now>>
      [] range_type = "year" -> <<Now - 365, Now>>

\* load_filters(filters_param): None when the parameter is not given
load_filters(filters_param) ==
    IF filters_param = Absent THEN Ok(JNull)
    ELSE IF filters_param = Malformed THEN Raise("ValueError", MsgInvalidJSON)
    ELSE Ok(filters_param)

\* get_filters_and_range(request, allow_range): (filter_dict, date_range),
\* date_range <<>> for None
get_filters_and_range(filters_param, range_param, allow_range) ==
    LET loaded == load_filters(filters_param)
        range_type == IF allow_range THEN range_param ELSE ""
    IN IF ~loaded.ok THEN loaded
       ELSE IF range_type # ""
       THEN IF ~validate_range(range_type) THEN Raise("ValueError", MsgRange)
            ELSE Ok([filter_dict |-> loaded.v,
                     date_range |-> get_date_range(range_type)])
       ELSE Ok([filter_dict |-> loaded.v, date_range |-> <<>>])

\* The except clauses of the three handlers.
Response(data) == [status |-> 200, data |-> data]
ErrorResponse(e) ==
    IF e.exc = "ValueError" THEN [status |-> 400, error |-> e.msg]
    ELSE [status |-> 500, error |-> MsgServerError(e.msg)]

\* InWindow without viewed_at__gte=start
InWindow_open(qs, range) ==
    [i \in DOMAIN qs |-> IF BlogView(i).viewed_at <= range[2] THEN qs[i] ELSE 0]

\* queryset.filter(viewed_at__gte=start, viewed_at__lte=end)
InWindow(qs, range) ==
    [i \in DOMAIN qs |->
        IF range[1] <= BlogView(i).viewed_at /\ BlogView(i).viewed_at <= range[2]
        THEN qs[i] ELSE 0]

\* if filter_dict: queryset = apply_filters(queryset, filter_dict)
Filtered(stored, qs, filter_dict) ==
    IF Truthy(filter_dict) THEN apply_filters(stored, qs, filter_dict) ELSE Ok(qs)

\* The columns grouped by: a name, or None.
None == [t |-> "null"]
Name(s) == [t |-> "str", s |-> s]
CountryName(c) == IF c = NULL THEN None ELSE Name(Country(c).name)
Username(u) == IF u = NULL THEN None ELSE Name(User(u).username)
country__name(i) == CountryName(BlogView(i).country)
viewer__username(i) == Username(BlogView(i).viewer)
viewer__country__name(i) ==
    IF BlogView(i).viewer = NULL THEN None
    ELSE CountryName(User(BlogView(i).viewer).country)
blog__title(i) == Name(Blog(BlogView(i).blog).title)
blog__author__username(i) == Username(Blog(BlogView(i).blog).author)

\* Count("id") and Count("blog", distinct=True) over the rows of one group:
\* a row the queryset yields n times is counted n times.
RECURSIVE CountId(_, _)
CountId(qs, rows) ==
    IF rows = {} THEN 0
    ELSE LET i == CHOOSE r \in rows : TRUE
         IN qs[i] + CountId(qs, rows \ {i})
CountBlogs(rows) == Cardinality({BlogView(i).blog : i \in rows})

RECURSIVE OrderByViews(_)
\* order_by("-total_views"): every order of the groups with total_views not
\* increasing, a group of the most views first; the database breaks ties as
\* it likes.
OrderByViews(groups) ==
    IF groups = {} THEN {<<>>}
    ELSE UNION {{<<g>> \o rest : rest \in OrderByViews(groups \ {g})} :
                  g \in {x \in groups :
                           \A y \in groups : x.total_views >= y.total_views}}

\* results[:11] for results[:10]
Top10_eleven(s) == SubSeq(s, 1, IF Len(s) < 11 THEN Len(s) ELSE 11)

\* results[:10]
Top10(s) == SubSeq(s, 1, IF Len(s) < 10 THEN Len(s) ELSE 10)

\* CharField.to_representation: str(value); None stays None
CharField(v) == IF v = None THEN None ELSE v
CountAsChar(n) == Name(ToStr(n))

\* values("country__name").annotate(blog_count=Count("blog", distinct=True),
\*   total_views=Count("id")).filter(country__name__isnull=False)
ByCountry(qs) ==
    LET keys == {country__name(i) : i \in RowsOf(qs)} \ {None}
        rows(k) == {i \in RowsOf(qs) : country__name(i) = k}
    IN {[key |-> k, blog_count |-> CountBlogs(rows(k)),
         total_views |-> CountId(qs, rows(k))] : k \in keys}

\* ByUser without .filter(viewer__username__isnull=False)
ByUser_unfiltered(qs) ==
    LET keys == {viewer__username(i) : i \in RowsOf(qs)}
        rows(k) == {i \in RowsOf(qs) : viewer__username(i) = k}
    IN {[key |-> k, blog_count |-> CountBlogs(rows(k)),
         total_views |-> CountId(qs, rows(k))] : k \in keys}

\* values("viewer__username").annotate(...).filter(viewer__username__isnull=False)
ByUser(qs) ==
    LET keys == {viewer__username(i) : i \in RowsOf(qs)} \ {None}
        rows(k) == {i \in RowsOf(qs) : viewer__username(i) = k}
    IN {[key |-> k, blog_count |-> CountBlogs(rows(k)),
         total_views |-> CountId(qs, rows(k))] : k \in keys}

\* values("viewer__username", "viewer__country__name").annotate(
\*   total_views=Count("id")).filter(viewer__username__isnull=False)
ByUserAndCountry(qs) ==
    LET key(i) == <<viewer__username(i), viewer__country__name(i)>>
        keys == {key(i) : i \in {r \in RowsOf(qs) : viewer__username(r) # None}}
        rows(k) == {i \in RowsOf(qs) : key(i) = k}
    IN {[key |-> k[1], country |-> k[2],
         total_views |-> CountId(qs, rows(k))] : k \in keys}

\* values("blog__title", "blog__author__username").annotate(total_views=Count("id"))
ByBlog(qs) ==
    LET key(i) == <<blog__title(i), blog__author__username(i)>>
        keys == {key(i) : i \in RowsOf(qs)}
        rows(k) == {i \in RowsOf(qs) : key(i) = k}
    IN {[key |-> k[1], author |-> k[2],
         total_views |-> CountId(qs, rows(k))] : k \in keys}

\* The rows of the response, through the serializer of the endpoint.
XYZ(x, y, z) == [x |-> x, y |-> y, z |-> z]

\* BlogViewsAPIView.get: the responses the request can get.  fault is what
\* running the query raises, NoFault when it runs.  Each value the handler
\* holds in a local is bound once, as "x \in {value}".
NoFault == [ok |-> TRUE]
BlogViewsData(object_type, qs) ==
    LET groups == IF object_type = "country" THEN ByCountry(qs) ELSE ByUser(qs)
    IN {[i \in 1..Len(results) |->
           XYZ(CharField(results[i].key), results[i].blog_count,
               results[i].total_views)] :
          results \in OrderByViews(groups)}

BlogViewsAPIView_get(stored, object_type, range_param, filters_param, fault) ==
    IF object_type = ""
    THEN {ErrorResponse(Raise("ValueError", MsgObjectTypeRequired))}
    ELSE IF ~validate_object_type(object_type)
    THEN {ErrorResponse(Raise("ValueError", MsgObjectType))}
    ELSE LET fr == get_filters_and_range(filters_param, range_param, TRUE)
         IN IF ~fr.ok THEN {ErrorResponse(fr)}
            ELSE IF fr.v.date_range = <<>>
            THEN {ErrorResponse(Raise("ValueError", MsgRangeRequired))}
            ELSE UNION {
                   IF ~queryset.ok THEN {ErrorResponse(queryset)}
                   ELSE IF ~fault.ok THEN {ErrorResponse(fault)}
                   ELSE {Response(data) : data \in BlogViewsData(object_type, queryset.v)} :
                   queryset \in
                     {Filtered(stored, InWindow(AllRows(stored), fr.v.date_range),
                               fr.v.filter_dict)}}

\* TopAPIView.get
TopData(top_type, qs) ==
    IF top_type = "user"
    THEN {[i \in 1..Len(Top10(results)) |->
             XYZ(CharField(results[i].key),
                 IF results[i].country = None
                 THEN Name(<<"U", "n", "k", "n", "o", "w", "n">>)
                 ELSE CharField(results[i].country),
                 results[i].total_views)] :
            results \in OrderByViews(ByUserAndCountry(qs))}
    ELSE IF top_type = "country"
    THEN {[i \in 1..Len(Top10(results)) |->
             XYZ(CharField(results[i].key), CountAsChar(results[i].blog_count),
                 results[i].total_views)] :
            results \in OrderByViews(ByCountry(qs))}
    ELSE {[i \in 1..Len(Top10(results)) |->
             XYZ(CharField(results[i].key), CharField(results[i].author),
                 results[i].total_views)] :
            results \in OrderByViews(ByBlog(qs))}

TopAPIView_get(stored, top_type, range_param, filters_param, fault) ==
    IF top_type = ""
    THEN {ErrorResponse(Raise("ValueError", MsgTopRequired))}
    ELSE IF ~validate_top_type(top_type)
    THEN {ErrorResponse(Raise("ValueError", MsgTop))}
    ELSE LET fr == get_filters_and_range(filters_param, range_param, TRUE)
             all == AllRows(stored)
         IN IF ~fr.ok THEN {ErrorResponse(fr)}
            ELSE UNION {
                   IF ~queryset.ok THEN {ErrorResponse(queryset)}
                   ELSE IF ~fault.ok THEN {ErrorResponse(fault)}
                   ELSE {Response(data) : data \in TopData(top_type, queryset.v)} :
                   queryset \in
                     {Filtered(stored,
                               IF fr.v.date_range # <<>>
                               THEN InWindow(all, fr.v.date_range) ELSE all,
                               fr.v.filter_dict)}}

(***************************************************************************)
(* The calendar.  Day 0 is Monday 2024-01-01; the days of the model lie in *)
(* 2024 and 2025.                                                          *)
(***************************************************************************)
YearOf(d) == IF d < 366 THEN 2024 ELSE 2025
YearStart(y) == IF y = 2024 THEN 0 ELSE 366
MonthLengths(y) ==
    <<31, IF y = 2024 THEN 29 ELSE 28, 31, 30, 31, 30, 31, 31, 30, 31, 30, 31>>

RECURSIVE MonthFrom(_, _, _)
\* The month (and the day of the month, from 0) of the n-th day of year y,
\* counted from the start of month m.
MonthFrom(y, m, n) ==
    IF n < MonthLengths(y)[m] THEN <<m, n>>
    ELSE MonthFrom(y, m + 1, n - MonthLengths(y)[m])

MonthOf(d) == MonthFrom(YearOf(d), 1, d - YearStart(YearOf(d)))[1]
DayOfMonth(d) == MonthFrom(YearOf(d), 1, d - YearStart(YearOf(d)))[2] + 1

\* TruncDay, TruncWeek (to the Monday), TruncMonth, TruncYear
Trunc(compare_type, d) ==
    CASE compare_type = "day" -> d
      [] compare_type = "week" -> d - (d % 7)
      [] compare_type = "month" -> d - (DayOfMonth(d) - 1)
      [] compare_type = "year" -> YearStart(YearOf(d))

\* strftime's %m and %d: two digits; %U: the week of the year, weeks
\* starting on Sunday, the days before the first Sunday in week 00
TwoDigits(n) == IF n < 10 THEN <<"0">> \o ToStr(n) ELSE ToStr(n)
WeekU(d) ==
    LET yday == d - YearStart(YearOf(d))
        wday == (d + 1) % 7
    IN (yday + 7 - wday) \div 7

\* format_period_label(date, compare_type, blog_count)
format_period_label(date, compare_type, blog_count) ==
    LET period ==
            CASE compare_type = "month" ->
                   ToStr(YearOf(date)) \o <<"-">> \o TwoDigits(MonthOf(date))
              [] compare_type = "week" ->
                   ToStr(YearOf(date)) \o <<"-", "W">> \o TwoDigits(WeekU(date))
              [] compare_type = "day" ->
                   ToStr(YearOf(date)) \o <<"-">> \o TwoDigits(MonthOf(date))
                     \o <<"-">> \o TwoDigits(DayOfMonth(date))
              [] compare_type = "year" -> ToStr(YearOf(date))
        blog_text == IF blog_count = 1 THEN <<"b", "l", "o", "g">>
                     ELSE <<"b", "l", "o", "g", "s">>
    IN period \o <<" ", "(">> \o ToStr(blog_count) \o <<" ">> \o blog_text \o <<")">>

MsgCompareRequired == [m |-> "compare is required"]
MsgCompare == [m |-> "Invalid compare type"]

\* views_qs.filter(blog__author_id=user_id), user_id the text of the parameter
ByAuthor(qs, user_id) ==
    IF ~IsIntString(user_id)
    THEN Raise("ValueError", MsgExpectedNumber(JStr(user_id)))
    ELSE Ok([i \in DOMAIN qs |->
               IF Blog(BlogView(i).blog).author = IntOfString(user_id)
               THEN qs[i] ELSE 0])

RECURSIVE Series_stale(_, _, _, _, _)
\* Series without "previous_views = current" at the end of the loop body.
Series_stale(all_periods, i, previous_views, views_dict, blogs_dict) ==
    IF i > Len(all_periods) THEN <<>>
    ELSE LET period == all_periods[i]
             current == IF period \in DOMAIN views_dict THEN views_dict[period] ELSE 0
             blogs == IF period \in DOMAIN blogs_dict THEN blogs_dict[period] ELSE 0
         IN <<[period |-> period, blogs |-> blogs, current |-> current,
               growth |-> calculate_growth_percentage(current, previous_views)]>>
              \o Series_stale(all_periods, i + 1, previous_views, views_dict, blogs_dict)

RECURSIVE Series(_, _, _, _, _)
\* The loop over all_periods from the i-th on, previous_views the count of
\* the period before.
Series(all_periods, i, previous_views, views_dict, blogs_dict) ==
    IF i > Len(all_periods) THEN <<>>
    ELSE LET period == all_periods[i]
             current == IF period \in DOMAIN views_dict THEN views_dict[period] ELSE 0
             blogs == IF period \in DOMAIN blogs_dict THEN blogs_dict[period] ELSE 0
         IN <<[period |-> period, blogs |-> blogs, current |-> current,
               growth |-> calculate_growth_percentage(current, previous_views)]>>
              \o Series(all_periods, i + 1, current, views_dict, blogs_dict)

\* The rows of the series: the views and the blog creations counted by
\* period, merged over the periods of either, in ascending order.
PerformanceData(compare_type, user_id, qs) ==
    LET viewed == RowsOf(qs)
        view_periods == {Trunc(compare_type, BlogView(i).viewed_at) : i \in viewed}
        blogs_qs == IF user_id # <<>>
                    THEN {b \in BlogIds : Blog(b).author = IntOfString(user_id)}
                    ELSE BlogIds
        blog_periods == {Trunc(compare_type, Blog(b).created_at) : b \in blogs_qs}
    IN UNION {
         LET series == Series(SetToSeq(view_periods \cup blog_periods), 1, 0,
                              views_dict, blogs_dict)
         IN {[i \in 1..Len(series) |->
                XYZ(Name(format_period_label(series[i].period, compare_type,
                                             series[i].blogs)),
                    series[i].current, Name(series[i].growth))]} :
         views_dict \in
           {[t \in view_periods |->
               CountId(qs, {i \in viewed :
                              Trunc(compare_type, BlogView(i).viewed_at) = t})]},
         blogs_dict \in
           {[t \in blog_periods |->
               Cardinality({b \in blogs_qs :
                              Trunc(compare_type, Blog(b).created_at) = t})]}}

\* PerformanceAPIView.get
PerformanceAPIView_get(stored, compare_type, user_id, filters_param, fault) ==
    IF compare_type = ""
    THEN {ErrorResponse(Raise("ValueError", MsgCompareRequired))}
    ELSE IF ~validate_compare(compare_type)
    THEN {ErrorResponse(Raise("ValueError", MsgCompare))}
    ELSE LET fr == get_filters_and_range(filters_param, "", FALSE)
             all == AllRows(stored)
         IN IF ~fr.ok THEN {ErrorResponse(fr)}
            ELSE UNION {
                   IF ~views_qs.ok THEN {ErrorResponse(views_qs)}
                   ELSE IF ~fault.ok THEN {ErrorResponse(fault)}
                   ELSE {Response(data) :
                           data \in PerformanceData(compare_type, user_id, views_qs.v)} :
                   views_qs \in
                     {LET authored == IF user_id # <<>> THEN ByAuthor(all, user_id)
                                      ELSE Ok(all)
                      IN IF ~authored.ok THEN authored
                         ELSE Filtered(stored, authored.v, fr.v.filter_dict)}}

(***************************************************************************)
(* The filters the requests are drawn from.                                *)
(***************************************************************************)
Pair(key, val) == JObj(<<<<key, val>>>>)
Eq(key, val) == Pair(<<"eq">>, Pair(key, val))
And(xs) == Pair(<<"and">>, JList(xs))
Or(xs) == Pair(<<"or">>, JList(xs))
Not(x) == Pair(<<"not">>, x)

US == JStr(<<"U", "S">>)
UK == JStr(<<"U", "K">>)

\* The leaf comparisons of the claims, as (field path, operator, value), the
\* operator one of eq, in, contains, gt, gte, lt, lte.
Comparisons ==
    { <<<<"country", "code">>, "eq", US>>,
      <<<<"country", "code">>, "in", JList(<<UK, JStr(<<"s">>)>>)>>,
      <<<<"country", "code">>, "contains", JStr(<<"s">>)>>,
      <<<<"blog", "title">>, "contains", JStr(<<"K">>)>>,
      <<<<"viewer", "username">>, "lt", JStr(<<"s">>)>>,
      <<<<"viewer", "username">>, "gte", JStr(<<"k", "u">>)>>,
      <<<<"blog", "id">>, "gt", JNum(1)>>,
      <<<<"blog", "id">>, "in", JList(<<JNum(2), JNum(3)>>)>>,
      <<<<"id">>, "lte", JNum(2)>>,
      <<<<"id">>, "eq", JNum(3)>> }

\* The lookup of Django's ORM that makes the comparison of an operator.
LookupOf(o) ==
    CASE o = "eq" -> <<>>
      [] o = "contains" -> <<"icontains">>
      [] OTHER -> <<o>>

\* {"eq": {"<path>__<lookup>": value}}: the leaf as the parser reads it
EqLeaf(c) == Eq(c[1] \o LookupOf(c[2]), c[3])
\* {"field": path, "op": operator, "value": value}: the leaf as a Condition
\* node.  The parser reads neither string; they are kept whole.
ConditionLeaf(c) ==
    JObj(<< <<<<"field">>, JStr(c[1])>>, <<<<"op">>, JStr(<<c[2]>>)>>,
            <<<<"value">>, c[3]>> >>)

EqLeaves == {EqLeaf(c) : c \in Comparisons}
ConditionLeaves == {ConditionLeaf(c) : c \in Comparisons}

AndEmpty == And(<<>>)
OrEmpty == Or(<<>>)
EmptyObject == JObj(<<>>)
CodeUS == Eq(<<"country", "code">>, US)
BlogGt1 == Eq(<<"blog", "id", "gt">>, JNum(1))
NameLtS == Eq(<<"viewer", "username", "lt">>, JStr(<<"s">>))
\* over the one-to-many relation from a view's blog to the views of that blog
SiblingUS == Eq(<<"blog", "views", "country", "code">>, US)
SiblingAnyU == Eq(<<"blog", "views", "country", "code", "icontains">>, JStr(<<"u">>))
\* lookups outside eq, in, contains, gt, gte, lt, lte
StartsWithU == Eq(<<"country", "code", "startswith">>, JStr(<<"U">>))
NoCountry == Eq(<<"country", "isnull">>, JBool(TRUE))
BogusLookup == Eq(<<"country", "code", "bogus">>, US)
\* a field path the dataset does not have, and values of the wrong type
UnknownField == Eq(<<"nope">>, JNum(1))
IdNotNumber == Eq(<<"id">>, JStr(<<"s">>))
DateNotDate == Eq(<<"viewed_at", "gte">>, JStr(<<"s">>))
InNotList == Eq(<<"id", "in">>, JNum(5))
TwoPairs ==
    Pair(<<"eq">>, JObj(<< <<<<"country", "code">>, US>>, <<<<"blog">>, JNum(1)>> >>))
EqEmpty == Pair(<<"eq">>, EmptyObject)
\* nodes with no, with several and with unknown operation keys
AndAndOr == JObj(<< <<<<"and">>, JList(<<CodeUS>>)>>, <<<<"or">>, JList(<<BlogGt1>>)>> >>)
NotAndEq == JObj(<< <<<<"not">>, CodeUS>>, <<<<"eq">>, EmptyObject>> >>)
XorOnly == Pair(<<"xor">>, JList(<<CodeUS>>))
AndXor == JObj(<< <<<<"and">>, JList(<<CodeUS>>)>>, <<<<"xor">>, JList(<<BlogGt1>>)>> >>)
EqLimit == JObj(<< <<<<"eq">>, Pair(<<"blog">>, JNum(1))>>, <<<<"limit">>, JNum(1)>> >>)

\* Values that are no JSON object.
NonObjects ==
    { JNull, JBool(FALSE), JBool(TRUE), JNum(0), JNum(5), JStr(<<>>),
      JStr(<<"s">>), JList(<<>>), JList(<<CodeUS>>) }

Leaves ==
    EqLeaves \cup
    { SiblingUS, SiblingAnyU, StartsWithU, NoCountry, BogusLookup, UnknownField,
      IdNotNumber, DateNotDate, InNotList, TwoPairs, EqEmpty }

\* Wrong operand shapes.
BadOperands ==
    { Pair(<<"and">>, CodeUS), Pair(<<"and">>, JNum(5)), Pair(<<"or">>, CodeUS),
      Pair(<<"or">>, JStr(<<"s">>)), Pair(<<"not">>, JList(<<CodeUS>>)),
      Pair(<<"not">>, JNum(5)), Pair(<<"not">>, JNull),
      Pair(<<"eq">>, JList(<<>>)), Pair(<<"eq">>, JNum(5)) }

BadKeys == {EmptyObject, AndAndOr, NotAndEq, XorOnly, AndXor, EqLimit}

\* The operands composites are built from, and the composites.
Operands ==
    { CodeUS, BlogGt1, NameLtS, SiblingUS, AndEmpty, OrEmpty, EqEmpty,
      EmptyObject, JNum(5), UnknownField, AndAndOr, Not(CodeUS), Not(AndEmpty) }
Inner == {CodeUS, BlogGt1, AndEmpty, Not(NameLtS), SiblingUS}

Nested ==
    {And(<<x, y>>) : x, y \in Inner} \cup {Or(<<x, y>>) : x, y \in Inner}

Composites ==
    {Not(x) : x \in Operands} \cup {And(<<x>>) : x \in Operands}
      \cup {Or(<<x>>) : x \in Operands}
      \cup {And(<<x, y>>) : x, y \in Operands}
      \cup {Or(<<x, y>>) : x, y \in Operands}
      \cup {Not(x) : x \in Nested}
      \cup {And(<<x, CodeUS>>) : x \in Nested}
      \cup {Or(<<BlogGt1, x>>) : x \in Nested}
      \cup {Not(Not(x)) : x \in Inner}

Filters ==
    NonObjects \cup Leaves \cup ConditionLeaves \cup BadOperands \cup BadKeys
      \cup {AndEmpty, OrEmpty} \cup Composites

\* The counts calculate_growth_percentage is called with.
Currents == 0..MaxCount \cup {50, 150}
Previouses == 0..MaxCount \cup {100}

\* The query parameters of the endpoints.
ObjectTypes == {"", "country", "user", "blog"}
TopTypes == {"", "user", "country", "blog", "view"}
Ranges == {"", "week", "month", "year", "day"}
CompareTypes == {"", "day", "week", "month", "year", "hour"}
UserIdParams == {<<>>, <<"1">>, <<"2">>, <<"x">>}
FiltersParams ==
    { Absent, Malformed, JNull, JList(<<>>), JNum(5), EmptyObject, AndEmpty,
      CodeUS, BlogGt1, NameLtS, SiblingUS, SiblingAnyU, StartsWithU,
      Not(AndEmpty), Or(<<AndEmpty, CodeUS>>), And(<<CodeUS, SiblingAnyU>>),
      Not(SiblingUS), Or(<<CodeUS, BlogGt1>>),
      Pair(<<"and">>, CodeUS), AndAndOr, XorOnly, BogusLookup, UnknownField,
      IdNotNumber, DateNotDate, InNotList }
\* What running the query can raise.
Faults ==
    { NoFault,
      Raise("OperationalError", [m |-> "database is locked"]),
      Raise("OperationalError", [m |-> "no such table: blog_analytics_blogview"]) }

(***************************************************************************)
(* The requests.                                                           *)
(***************************************************************************)
Idle == [none |-> TRUE]

Init ==
    /\ db \in SUBSET ViewIds
    /\ op = "idle"
    /\ arg = Idle
    /\ ret = Idle

\* DynamicFilter(filter_dict).parse()
Parse(filter_dict) ==
    /\ op = "idle"
    /\ op' = "parse"
    /\ arg' = [filter_dict |-> filter_dict]
    /\ ret' = parse(filter_dict)
    /\ UNCHANGED db

\* apply_filters(BlogView.objects.all(), filter_dict)
ApplyFilters(filter_dict) ==
    /\ op = "idle"
    /\ op' = "apply_filters"
    /\ arg' = [filter_dict |-> filter_dict]
    /\ ret' = apply_filters(db, AllRows(db), filter_dict)
    /\ UNCHANGED db

ValidateFilters(filter_dict) ==
    /\ op = "idle"
    /\ op' = "validate_filters"
    /\ arg' = [filter_dict |-> filter_dict]
    /\ ret' = validate_filters(filter_dict)
    /\ UNCHANGED db

CalculateGrowth(current, previous) ==
    /\ op = "idle"
    /\ op' = "calculate_growth_percentage"
    /\ arg' = [current |-> current, previous |-> previous]
    /\ ret' = Ok(calculate_growth_percentage(current, previous))
    /\ UNCHANGED db

\* GET blog-views/?object_type=..&range=..&filters=..
BlogViewsGet(object_type, range_param, filters_param, fault) ==
    /\ op = "idle"
    /\ op' = "blog-views"
    /\ arg' = [object_type |-> object_type, range |-> range_param,
               filters |-> filters_param, fault |-> fault]
    /\ ret' \in BlogViewsAPIView_get(db, object_type, range_param, filters_param, fault)
    /\ UNCHANGED db

\* GET top/?top=..&range=..&filters=..
TopGet(top_type, range_param, filters_param, fault) ==
    /\ op = "idle"
    /\ op' = "top"
    /\ arg' = [top |-> top_type, range |-> range_param,
               filters |-> filters_param, fault |-> fault]
    /\ ret' \in TopAPIView_get(db, top_type, range_param, filters_param, fault)
    /\ UNCHANGED db

\* GET performance/?compare=..&user_id=..&filters=..
PerformanceGet(compare_type, user_id, filters_param, fault) ==
    /\ op = "idle"
    /\ op' = "performance"
    /\ arg' = [compare |-> compare_type, user_id |-> user_id,
               filters |-> filters_param, fault |-> fault]
    /\ ret' \in PerformanceAPIView_get(db, compare_type, user_id, filters_param, fault)
    /\ UNCHANGED db

\* The response is taken; the next request may come.
Return ==
    /\ op # "idle"
    /\ op' = "idle"
    /\ arg' = Idle
    /\ ret' = Idle
    /\ UNCHANGED db

Next ==
    \/ \E f \in Filters : Parse(f)
    \/ \E f \in Filters : ApplyFilters(f)
    \/ \E f \in Filters : ValidateFilters(f)
    \/ \E c \in Currents, p \in Previouses : CalculateGrowth(c, p)
    \/ \E o \in ObjectTypes, r \in Ranges, f \in FiltersParams, x \in Faults :
          BlogViewsGet(o, r, f, x)
    \/ \E t \in TopTypes, r \in Ranges, f \in FiltersParams, x \in Faults :
          TopGet(t, r, f, x)
    \/ \E c \in CompareTypes, u \in UserIdParams, f \in FiltersParams, x \in Faults :
          PerformanceGet(c, u, f, x)
    \/ Return

Spec == Init /\ [][Next]_vars

(***************************************************************************)
(* The rankings over the first n view rows, n up to TopViews: more groups  *)
(* than a ranking holds.                                                   *)
(***************************************************************************)
TopViews == 4 + (MaxGroups * (MaxGroups + 1)) \div 2
TopFilters == {Absent, CodeUS, BlogGt1, Not(AndEmpty), UnknownField}
TopFaults == {NoFault, Raise("OperationalError", [m |-> "database is locked"])}

InitTop ==
    /\ db \in {1..n : n \in 0..TopViews}
    /\ op = "idle"
    /\ arg = Idle
    /\ ret = Idle

NextTop ==
    \/ \E t \in TopTypes, r \in Ranges, f \in TopFilters, x \in TopFaults :
          TopGet(t, r, f, x)
    \/ Return

SpecTop == InitTop /\ [][NextTop]_vars

(***************************************************************************)
(* What the claims are stated with.                                        *)
(***************************************************************************)
\* The field of a comparison on view row i, read from the tables: None when
\* the row it lies on is missing.
FieldOf(i, path) ==
    CASE path = <<"country", "code">> ->
           IF BlogView(i).country = NULL THEN None
           ELSE JStr(Country(BlogView(i).country).code)
      [] path = <<"viewer", "username">> -> viewer__username(i)
      [] path = <<"blog", "title">> -> blog__title(i)
      [] path = <<"blog", "id">> -> JNum(BlogView(i).blog)
      [] path = <<"id">> -> JNum(i)

Below(a, b) == IF a.t = "num" THEN a.n < b.n ELSE SeqLess(a.s, b.s)

\* The comparison of operator o between field value x and value v.
Satisfies(x, o, v) ==
    /\ x # None
    /\ CASE o = "eq" -> x = v
         [] o = "in" -> x \in Range(v.xs)
         [] o = "contains" -> IsSubstring(Lower(v.s), Lower(x.s))
         [] o = "gt" -> Below(v, x)
         [] o = "gte" -> ~Below(x, v)
         [] o = "lt" -> Below(x, v)
         [] o = "lte" -> ~Below(v, x)

Satisfying(c) == {i \in db : Satisfies(FieldOf(i, c[1]), c[2], c[3])}

\* The rows a node matches, when it parses and the query takes it.
Parses(node) == _parse_node(node).ok
Takes(node) == Parses(node) /\ CheckQ(_parse_node(node).v).ok
Matched(node) == RowsOf(Filter(db, AllRows(db), _parse_node(node).v).v)

IsNode(v, key) == IsDict(v) /\ Keys(v) = <<key>>

C2_EmptyListsMatchAll ==
    (op = "apply_filters" /\ arg.filter_dict \in {AndEmpty, OrEmpty}) =>
        ret.ok /\ ret.v = AllRows(db)

C2_Witness ==
    /\ op = "apply_filters"
    /\ arg.filter_dict = OrEmpty
    /\ Cardinality(db) >= 2
    /\ ret.ok
    /\ RowsOf(ret.v) = db

(***************************************************************************)
(* C3  Negation.                                                           *)
(***************************************************************************)
\* C3: for every child that parses (and that the query takes), {"not": child}
\* matches exactly the rows child does not match.
C3_NotIsComplement ==
    (/\ op = "apply_filters"
     /\ IsNode(arg.filter_dict, <<"not">>)
     /\ Takes(Get(arg.filter_dict, <<"not">>)))
    => /\ ret.ok
       /\ RowsOf(ret.v) = db \ Matched(Get(arg.filter_dict, <<"not">>))

(***************************************************************************)
(* C4  Conjunction and disjunction.                                        *)
(***************************************************************************)
\* C4: an and node with a non-empty operand list matches a row exactly when
\* every child matches it, an or node exactly when some child does.
C4_AndOrCompose ==
    LET f == arg.filter_dict
        kids(key) == Get(f, key).xs
        fits(key) == /\ IsNode(f, key)
                     /\ IsList(Get(f, key))
                     /\ kids(key) # <<>>
                     /\ \A n \in 1..Len(kids(key)) : Takes(kids(key)[n])
    IN /\ (op = "apply_filters" /\ fits(<<"and">>)) =>
             /\ ret.ok
             /\ RowsOf(ret.v) =
                  {i \in db : \A n \in 1..Len(kids(<<"and">>)) :
                                  i \in Matched(kids(<<"and">>)[n])}
       /\ (op = "apply_filters" /\ fits(<<"or">>)) =>
             /\ ret.ok
             /\ RowsOf(ret.v) =
                  {i \in db : \E n \in 1..Len(kids(<<"or">>)) :
                                  i \in Matched(kids(<<"or">>)[n])}

(***************************************************************************)
(* C5  Wrong shapes.                                                       *)
(***************************************************************************)
RECURSIVE WrongShape(_)
\* A value that is no object where a node stands, an and/or operand that is
\* no list, a not operand that is no object, at any level.
WrongShape(v) ==
    \/ ~IsDict(v)
    \/ \E n \in 1..Len(v.kv) :
          LET k == v.kv[n][1]
              x == v.kv[n][2]
          IN \/ /\ k \in {<<"and">>, <<"or">>}
                /\ (~IsList(x) \/ \E m \in 1..Len(x.xs) : WrongShape(x.xs[m]))
             \/ k = <<"not">> /\ WrongShape(x)

\* C5: a filter of a wrong shape (null, which stands for no filter, apart) is
\* never a no-op: parse raises, validate_filters returns (False, message) and
\* apply_filters raises.
C5_WrongShapeRejected ==
    (/\ op \in {"parse", "validate_filters", "apply_filters"}
     /\ arg.filter_dict # JNull
     /\ WrongShape(arg.filter_dict))
    => /\ op = "parse" => ~ret.ok
       /\ op = "validate_filters" => ret.v[1] = FALSE
       /\ op = "apply_filters" => ~ret.ok

(***************************************************************************)
(* C6  One operation key a node.                                           *)
(***************************************************************************)
Operations(node) == SelectSeq(Keys(node), IsSupported)

RECURSIVE HasBadKeyNode(_)
\* Some node of the tree, v included, has no or several operation keys.
HasBadKeyNode(v) ==
    /\ IsDict(v)
    /\ \/ Len(Operations(v)) # 1
       \/ LET o == Operations(v)[1]
              x == Get(v, o)
          IN \/ /\ o \in {<<"and">>, <<"or">>}
                /\ IsList(x)
                /\ \E m \in 1..Len(x.xs) : HasBadKeyNode(x.xs[m])
             \/ o = <<"not">> /\ HasBadKeyNode(x)

\* The error of a node with no or with several operation keys.
KeyError(node) ==
    IF Operations(node) = <<>> THEN MsgNoOperation(node)
    ELSE MsgMultiple(Operations(node))

SupportedLookups == {"exact", "in", "contains", "icontains", "gt", "gte", "lt", "lte"}

\* The key of a comparison ends in a lookup outside the supported ones.
UnknownLookup(key) ==
    LET r == Resolve(key)
    IN IF r.ok THEN r.v.lookup \notin SupportedLookups
       ELSE r.msg.m = "Unsupported lookup"

RECURSIVE HasUnknownOperator(_)
HasUnknownOperator(v) ==
    /\ IsDict(v)
    /\ \E n \in 1..Len(v.kv) :
          LET k == v.kv[n][1]
              x == v.kv[n][2]
          IN \/ ~IsSupported(k)
             \/ /\ k \in {<<"and">>, <<"or">>}
                /\ IsList(x)
                /\ \E m \in 1..Len(x.xs) : HasUnknownOperator(x.xs[m])
             \/ k = <<"not">> /\ HasUnknownOperator(x)
             \/ /\ k = <<"eq">>
                /\ IsDict(x)
                /\ \E m \in 1..Len(x.kv) : UnknownLookup(x.kv[m][1])

\* C7: a filter with a comparison operator outside eq, in, contains, gt, gte,
\* lt, lte, or with a node key that is no operation of the parser, makes parse
\* fail and validate_filters return (False, message).
C7_UnknownOperatorRejected ==
    (/\ op \in {"parse", "validate_filters"}
     /\ HasUnknownOperator(arg.filter_dict))
    => /\ op = "parse" => ~ret.ok
       /\ op = "validate_filters" => ret.v[1] = FALSE

(***************************************************************************)
(* C8  The uniform filter error.                                           *)
(***************************************************************************)
\* A filter that is applied and that parsing or building the query refuses,
\* and the message of what is raised.
FilterFails(f) ==
    /\ f \notin {Absent, Malformed}
    /\ Truthy(f)
    /\ (parse(f).ok => ~CheckQ(parse(f).v).ok)
Cause(f) == IF ~parse(f).ok THEN parse(f).msg ELSE CheckQ(parse(f).v).msg

\* The other parameters of the request are valid.
ValidRequest ==
    CASE op = "blog-views" ->
           arg.object_type \in {"country", "user"}
             /\ arg.range \in {"week", "month", "year"}
      [] op = "top" ->
           arg.top \in {"user", "country", "blog"}
             /\ arg.range \in {"", "week", "month", "year"}
      [] op = "performance" ->
           arg.compare \in {"day", "week", "month", "year"}
             /\ arg.user_id # <<"x">>
      [] OTHER -> FALSE

\* C8: whatever parsing the tree or applying the predicate raises leaves
\* apply_filters as ValueError "Invalid filter: <message of the cause>", and
\* each of the three endpoints answers a request with such a filter with
\* status 400, with that message when the other parameters are valid.
C8_UniformFilterError ==
    /\ op = "apply_filters" =>
          /\ FilterFails(arg.filter_dict) <=> ~ret.ok
          /\ ~ret.ok =>
                /\ ret.exc = "ValueError"
                /\ ret.msg = MsgInvalidFilter(Cause(arg.filter_dict))
    /\ (op \in {"blog-views", "top", "performance"} /\ FilterFails(arg.filters)) =>
          /\ ret.status = 400
          /\ ValidRequest => ret.error = MsgInvalidFilter(Cause(arg.filters))

\* An endpoint has answered 400 to a filter that parses and that the query
\* refuses with an error that is no ValueError.
C8_Witness ==
    /\ op = "performance"
    /\ arg.filters = DateNotDate
    /\ ValidRequest
    /\ parse(arg.filters).ok
    /\ CheckQ(parse(arg.filters).v).exc = "ValidationError"
    /\ ret.status = 400

(***************************************************************************)
(* C9  No duplicated rows.                                                 *)
(***************************************************************************)
\* C9: the filtered result holds each view row at most once, and in the
\* grouped counts of the blog-views endpoint the count z of a group is at
\* most the number of view events of the group.
C9_EachViewOnce ==
    /\ (op = "apply_filters" /\ ret.ok) => \A i \in db : ret.v[i] <= 1
    /\ (op = "blog-views" /\ ret.status = 200) =>
          \A n \in 1..Len(ret.data) :
             ret.data[n].z <=
               Cardinality({i \in db :
                  ret.data[n].x = IF arg.object_type = "country"
                                  THEN country__name(i)
                                  ELSE viewer__username(i)})

(***************************************************************************)
(* C10  The growth percentage.                                             *)
(***************************************************************************)
\* The tenths a rendering "<sign><digits>.<digit>%" stands for.
TenthsOf(s) ==
    10 * DigitsValue(SubSeq(s, 2, Len(s) - 3)) + DigitValue(s[Len(s) - 1])

\* C10: calculate_growth_percentage(c, p) is "0.0%" for (0, 0), "+100.0%" for
\* p = 0 < c, and else the sign ("+" when c >= p, "-" when not), the
\* magnitude of (c - p) / p * 100 to the nearest tenth with one decimal
\* digit, and "%"; (150, 100) gives "+50.0%" and (50, 100) "-50.0%".
C10_GrowthFormula ==
    op = "calculate_growth_percentage" =>
      LET c == arg.current
          p == arg.previous
          s == ret.v
          exact == 1000 * (IF c >= p THEN c - p ELSE p - c)
      IN /\ (p = 0 /\ c = 0) => s = <<"0", ".", "0", "%">>
         /\ (p = 0 /\ c # 0) => s = <<"+", "1", "0", "0", ".", "0", "%">>
         /\ p # 0 =>
               /\ Len(s) >= 5
               /\ s[1] = (IF c >= p THEN "+" ELSE "-")
               /\ \A n \in 2..(Len(s) - 3) : IsDigit(s[n])
               /\ s[Len(s) - 2] = "."
               /\ IsDigit(s[Len(s) - 1])
               /\ s[Len(s)] = "%"
               /\ (Len(s) > 5 => s[2] # "0")
               /\ 2 * TenthsOf(s) * p - 2 * exact <= p
               /\ 2 * exact - 2 * TenthsOf(s) * p <= p
         /\ (c = 150 /\ p = 100) => s = <<"+", "5", "0", ".", "0", "%">>
         /\ (c = 50 /\ p = 100) => s = <<"-", "5", "0", ".", "0", "%">>

\* A percentage that is no whole number of tenths has been rounded up.
C10_Witness ==
    /\ op = "calculate_growth_percentage"
    /\ arg.current = 1
    /\ arg.previous = 3
    /\ ret.v = <<"-", "6", "6", ".", "7", "%">>

(***************************************************************************)
(* The view rows a request counts, stated from the tables.                 *)
(***************************************************************************)
WindowDays(range) ==
    CASE range = "week" -> 7 [] range = "month" -> 30 [] range = "year" -> 365

\* Row i lies in the window of the range; no range, no window.
InRange(i, range) ==
    \/ range = ""
    \/ /\ Now - WindowDays(range) <= BlogView(i).viewed_at
       /\ BlogView(i).viewed_at <= Now

\* How often the filter of the request yields each row of the window; an
\* absent or empty filter yields each once.
Yielded(filters_param, range) ==
    LET all == IF filters_param = Absent \/ ~Truthy(filters_param)
               THEN AllRows(db)
               ELSE apply_filters(db, AllRows(db), filters_param).v
    IN [i \in db |-> IF InRange(i, range) THEN all[i] ELSE 0]

(***************************************************************************)
(* C11  The ranking.                                                       *)
(***************************************************************************)
\* The group of view row i in the ranking of the dimension, and the group a
\* row of the response stands for.
ViewKey(top_type, i) ==
    CASE top_type = "user" -> <<viewer__username(i)>>
      [] top_type = "country" -> <<country__name(i)>>
      [] top_type = "blog" -> <<blog__title(i), blog__author__username(i)>>
RowKey(top_type, r) == IF top_type = "blog" THEN <<r.x, r.y>> ELSE <<r.x>>

\* C11: for every dimension, window and filter the ranking has at most 10
\* rows, its counts z do not increase from the first row to the last, and a
\* group (of a key that is not null) is left out only of a ranking of 10 rows
\* and only with a count that is at most the least z of the ranking.
C11_TopTenByViews ==
    (op = "top" /\ ret.status = 200) =>
      LET F == Yielded(arg.filters, arg.range)
          data == ret.data
          shown == {RowKey(arg.top, data[n]) : n \in 1..Len(data)}
          left == {ViewKey(arg.top, i) :
                     i \in {r \in db : F[r] > 0 /\ ViewKey(arg.top, r)[1] # None}}
                    \ shown
      IN /\ Len(data) <= 10
         /\ \A n \in 1..(Len(data) - 1) : data[n].z >= data[n + 1].z
         /\ \A k \in left :
               /\ Len(data) = 10
               /\ CountId(F, {i \in db : ViewKey(arg.top, i) = k}) <= data[10].z

\* A ranking of 10 rows has left a group out.
C11_Witness ==
    /\ op = "top"
    /\ arg.top = "user"
    /\ arg.range = "month"
    /\ ret.status = 200
    /\ Len(ret.data) = 10
    /\ \E i \in db :
          /\ Yielded(arg.filters, arg.range)[i] > 0
          /\ viewer__username(i) # None
          /\ \A n \in 1..10 : ret.data[n].x # viewer__username(i)

(***************************************************************************)
(* C12  Null grouping keys.                                                *)
(***************************************************************************)
\* The grouping key of view row i in the grouped counts.
GroupKey(object_type, i) ==
    IF object_type = "country" THEN country__name(i) ELSE viewer__username(i)

\* C12: the grouped counts hold no row of a null key; the count z of a row
\* is the number of yielded view events of its key and its y the number of
\* their blogs, so an event without viewer (by user) or without country (by
\* country) adds to no row; and every yielded event of a key that is not
\* null has the row of its key.
C12_NullKeysDropped ==
    (op = "blog-views" /\ ret.status = 200) =>
      LET F == Yielded(arg.filters, arg.range)
          key(i) == GroupKey(arg.object_type, i)
          data == ret.data
      IN /\ \A n \in 1..Len(data) :
               /\ data[n].x # None
               /\ data[n].z = CountId(F, {i \in db : key(i) = data[n].x})
               /\ data[n].y =
                    Cardinality({BlogView(i).blog :
                                   i \in {r \in db : F[r] > 0 /\ key(r) = data[n].x}})
         /\ \A i \in db :
               (F[i] > 0 /\ key(i) # None) =>
                  \E n \in 1..Len(data) : data[n].x = key(i)

\* Grouped by user, an anonymous view of the window is in no row, and a view
\* with a viewer is.
C12_Witness ==
    /\ op = "blog-views"
    /\ arg.object_type = "user"
    /\ arg.range = "month"
    /\ arg.filters = Absent
    /\ {1, 2} \subseteq db
    /\ BlogView(2).viewer = NULL
    /\ ret.status = 200
    /\ Len(ret.data) = 1
    /\ ret.data[1].z = 1

(***************************************************************************)
(* C13  The performance series.                                            *)
(***************************************************************************)
\* The blogs of the request, and how often its filter yields each view row
\* of them: all blogs, or the blogs of the author user_id.
BlogsOf(user_id) ==
    IF user_id = <<>> THEN BlogIds
    ELSE {b \in BlogIds : Blog(b).author = IntOfString(user_id)}
ViewsOf(user_id, filters_param) ==
    LET F == Yielded(filters_param, "")
    IN [i \in db |->
          IF user_id = <<>> \/ Blog(BlogView(i).blog).author = IntOfString(user_id)
          THEN F[i] ELSE 0]

\* C13: the series has one row for each period of a counted view event or of
\* a blog creation, in ascending order of the periods; the label x of a row
\* is of its period and of the blogs created in it, its y the number of view
\* events of the period (0 when there is none), and its z is
\* calculate_growth_percentage(y, y of the row before), of the first row
\* against 0.
C13_PerformanceSeries ==
    (op = "performance" /\ ret.status = 200) =>
      LET W == ViewsOf(arg.user_id, arg.filters)
          blogs == BlogsOf(arg.user_id)
          at(i) == Trunc(arg.compare, BlogView(i).viewed_at)
          made(b) == Trunc(arg.compare, Blog(b).created_at)
          periods == {at(i) : i \in {r \in db : W[r] > 0}} \cup {made(b) : b \in blogs}
          nth(n) == CHOOSE p \in periods : Cardinality({q \in periods : q < p}) = n - 1
          data == ret.data
      IN /\ Len(data) = Cardinality(periods)
         /\ \A n \in 1..Len(data) :
               /\ data[n].x =
                    Name(format_period_label(nth(n), arg.compare,
                           Cardinality({b \in blogs : made(b) = nth(n)})))
               /\ data[n].y = CountId(W, {i \in db : at(i) = nth(n)})
               /\ data[n].z =
                    Name(calculate_growth_percentage(
                           data[n].y, IF n = 1 THEN 0 ELSE data[n - 1].y))

\* A series by day with a period of blog creations only between periods of
\* views: its y is 0, and the growths are against the rows before.
C13_Witness ==
    /\ op = "performance"
    /\ arg.compare = "day"
    /\ arg.user_id = <<>>
    /\ arg.filters = Absent
    /\ db = {1, 2, 3}
    /\ ret.status = 200
    /\ Len(ret.data) = 6
    /\ ret.data[3].y = 1
    /\ ret.data[4].y = 0
    /\ ret.data[4].z = Name(<<"-", "1", "0", "0", ".", "0", "%">>)
    /\ ret.data[5].z = Name(<<"+", "1", "0", "0", ".", "0", "%">>)

(***************************************************************************)
(* C14  The server-side failure.                                           *)
(***************************************************************************)
\* The responses the request of the state can get when running its query
\* raises fault.
ResponsesWith(fault) ==
    CASE op = "blog-views" ->
           BlogViewsAPIView_get(db, arg.object_type, arg.range, arg.filters, fault)
      [] op = "top" ->
           TopAPIView_get(db, arg.top, arg.range, arg.filters, fault)
      [] op = "performance" ->
           PerformanceAPIView_get(db, arg.compare, arg.user_id, arg.filters, fault)

\* C14: when running the query of an endpoint raises an exception that is no
\* client-input error, the response has status 500 and a body without the
\* message of the exception, the same body for any such exception.
C14_OpaqueServerFailure ==
    (op \in {"blog-views", "top", "performance"} /\ ret.status = 500) =>
      /\ ret.error # MsgServerError(arg.fault.msg)
      /\ \A x \in Faults \ {NoFault} : ret \in ResponsesWith(x)

(***************************************************************************)
(* C15  The ranking of blogs.                                              *)
(***************************************************************************)
\* C15: in the ranking by blog every row stands for one blog: its x is the
\* title of the blog, its y the name of the author of the blog and its z the
\* number of yielded view events of that blog; and a ranking of fewer than
\* 10 rows has a row for each blog with such an event.
C15_TopBlogRowsAreBlogs ==
    (op = "top" /\ arg.top = "blog" /\ ret.status = 200) =>
      LET F == Yielded(arg.filters, arg.range)
          viewed == {BlogView(i).blog : i \in {r \in db : F[r] > 0}}
          data == ret.data
      IN /\ \A n \in 1..Len(data) :
               \E b \in viewed :
                  /\ data[n].x = Name(Blog(b).title)
                  /\ data[n].y = Username(Blog(b).author)
                  /\ data[n].z = CountId(F, {i \in db : BlogView(i).blog = b})
         /\ Len(data) < 10 => Len(data) = Cardinality(viewed)

(***************************************************************************)
(* C16  validate_filters.                                                  *)
(***************************************************************************)
\* C16: validate_filters never raises; it returns (True, "") exactly when
\* the input is falsy or parse completes, and else (False, msg) with msg the
\* message of what parse raises; and when it returns (False, msg),
\* apply_filters raises ValueError "Invalid filter: <msg>" on the same input
\* whatever the dataset.
C16_ValidateAgrees ==
    /\ op = "validate_filters" =>
         LET f == arg.filter_dict
         IN /\ ret.ok
            /\ (ret.v[1] = TRUE) <=> (~Truthy(f) \/ parse(f).ok)
            /\ (ret.v[1] = TRUE) => ret.v[2] = NoMessage
            /\ (ret.v[1] = FALSE) =>
                  /\ ret.v[2] = parse(f).msg
                  /\ \A stored \in SUBSET ViewIds :
                        apply_filters(stored, AllRows(stored), f) =
                          Raise("ValueError", MsgInvalidFilter(ret.v[2]))
    /\ op = "apply_filters" =>
         LET valid == validate_filters(arg.filter_dict).v
         IN (valid[1] = FALSE) =>
               ret = Raise("ValueError", MsgInvalidFilter(valid[2]))

\* A filter has been found invalid, with the message of the parser.
C16_Witness ==
    /\ op = "validate_filters"
    /\ arg.filter_dict = Or(<<CodeUS, AndAndOr>>)
    /\ ret = Ok(<<FALSE, MsgMultiple(<<<<"and">>, <<"or">>>>)>>)

(***************************************************************************)
(* C17  The grouped counts.                                                *)
(***************************************************************************)
RECURSIVE TraversesMany(_)
\* Some field path of the filter follows a one-to-many relation.
TraversesMany(v) ==
    \/ IsList(v) /\ \E m \in 1..Len(v.xs) : TraversesMany(v.xs[m])
    \/ /\ IsDict(v)
       /\ \E n \in 1..Len(v.kv) :
             LET k == v.kv[n][1]
                 x == v.kv[n][2]
             IN IF k = <<"eq">>
                THEN /\ IsDict(x)
                     /\ \E m \in 1..Len(x.kv) :
                           /\ Resolve(x.kv[m][1]).ok
                           /\ Resolve(x.kv[m][1]).v.many > 0
                ELSE TraversesMany(x)

\* C17: in the grouped counts, for any window and any filter that follows
\* no one-to-many relation, the keys x are pairwise distinct, every row has
\* 1 <= y <= z, and the counts z add up to the number of view events that
\* lie in the window, pass the filter and have a key that is not null.
C17_GroupedCounts ==
    (op = "blog-views" /\ ret.status = 200 /\ ~TraversesMany(arg.filters)) =>
      LET F == Yielded(arg.filters, arg.range)
          data == ret.data
      IN /\ \A n, m \in 1..Len(data) : n # m => data[n].x # data[m].x
         /\ \A n \in 1..Len(data) : 1 <= data[n].y /\ data[n].y <= data[n].z
         /\ SumSeq([n \in 1..Len(data) |-> data[n].z]) =
              Cardinality({i \in db :
                             /\ InRange(i, arg.range)
                             /\ F[i] > 0
                             /\ GroupKey(arg.object_type, i) # None})

\* Of three views, one lies outside the window and one has no country: the
\* third is the one counted.
C17_Witness ==
    /\ op = "blog-views"
    /\ arg.object_type = "country"
    /\ arg.range = "week"
    /\ arg.filters = Or(<<CodeUS, BlogGt1>>)
    /\ db = {1, 2, 3}
    /\ ret.status = 200
    /\ Len(ret.data) = 1
    /\ ret.data[1].z = 1

=============================================================================
